---- MODULE Spec2Model ----
(***************************************************************************)
(* Model of main.py: the LineCounter class (path normalisation, the file   *)
(* filter, the per-file line count, the os.walk aggregation), the argument *)
(* parser and the reporter.                                                *)
(*                                                                         *)
(* A Python str is modelled as a sequence of one-character strings, so     *)
(* that startswith, os.path.join, os.path.normpath and os.path.splitext    *)
(* are computed character by character as the library computes them        *)
(* (POSIX flavour of os.path).                                             *)
(***************************************************************************)
EXTENDS Integers, Sequences, FiniteSets, TLC

(***************************************************************************)
(* Bounds of the model.                                                    *)
(***************************************************************************)
\* at most this many files of the tree raise OSError when opened
MaxUnreadable == 1
\* file names of the extension specification have at most this many characters
MaxNameLen == 3

(***************************************************************************)
(* Strings.                                                                *)
(***************************************************************************)
SLASH == "/"
DOT == "."

\* str.startswith
StartsWith(s, p) ==
    /\ Len(p) <= Len(s)
    /\ \A i \in 1..Len(p) : s[i] = p[i]

\* str.rfind for a one-character needle, 0-based, -1 when absent
RFind(s, c) ==
    IF \E i \in 1..Len(s) : s[i] = c
    THEN (CHOOSE i \in 1..Len(s) : s[i] = c /\ \A j \in (i+1)..Len(s) : s[j] # c) - 1
    ELSE -1

\* x in list
InList(x, list) == \E i \in 1..Len(list) : list[i] = x

\* str.split("/")
RECURSIVE SplitSlash(_)
SplitSlash(s) ==
    IF \A i \in 1..Len(s) : s[i] # SLASH
    THEN <<s>>
    ELSE LET k == CHOOSE i \in 1..Len(s) : s[i] = SLASH /\ \A j \in 1..(i-1) : s[j] # SLASH
         IN  <<SubSeq(s, 1, k-1)>> \o SplitSlash(SubSeq(s, k+1, Len(s)))

\* "/".join(comps)
RECURSIVE JoinSlash(_)
JoinSlash(comps) ==
    IF comps = <<>> THEN <<>>
    ELSE IF Len(comps) = 1 THEN comps[1]
    ELSE comps[1] \o <<SLASH>> \o JoinSlash(Tail(comps))

\* the component loop of posixpath.normpath
RECURSIVE NormComps(_, _, _)
NormComps(comps, new_comps, initial_slashes) ==
    IF comps = <<>> THEN new_comps
    ELSE LET comp == comps[1]
             rest == Tail(comps)
         IN  IF comp = <<>> \/ comp = <<DOT>>
             THEN NormComps(rest, new_comps, initial_slashes)
             ELSE IF \/ comp # <<DOT, DOT>>
                     \/ (initial_slashes = 0 /\ new_comps = <<>>)
                     \/ (new_comps # <<>> /\ new_comps[Len(new_comps)] = <<DOT, DOT>>)
                  THEN NormComps(rest, Append(new_comps, comp), initial_slashes)
                  ELSE IF new_comps # <<>>
                       THEN NormComps(rest, SubSeq(new_comps, 1, Len(new_comps) - 1), initial_slashes)
                       ELSE NormComps(rest, new_comps, initial_slashes)

\* os.path.normpath
normpath(path) ==
    IF path = <<>> THEN <<DOT>>
    ELSE LET initial_slashes ==
                 IF ~StartsWith(path, <<SLASH>>) THEN 0
                 ELSE IF StartsWith(path, <<SLASH, SLASH>>) /\ ~StartsWith(path, <<SLASH, SLASH, SLASH>>)
                      THEN 2 ELSE 1
             body == JoinSlash(NormComps(SplitSlash(path), <<>>, initial_slashes))
             res == [i \in 1..initial_slashes |-> SLASH] \o body
         IN  IF res = <<>> THEN <<DOT>> ELSE res

\* os.path.join(a, b)
join(a, b) ==
    IF StartsWith(b, <<SLASH>>) THEN b
    ELSE IF a = <<>> \/ a[Len(a)] = SLASH THEN a \o b
    ELSE a \o <<SLASH>> \o b

\* splitext as a plain search for the last dot (leading dots not skipped)
splitext_naive(p) ==
    LET sepIndex == RFind(p, SLASH)
        dotIndex == RFind(p, DOT)
    IN  IF dotIndex > sepIndex THEN SubSeq(p, dotIndex + 1, Len(p)) ELSE <<>>

\* os.path.splitext(p)[1]: the suffix from the last dot, unless every
\* character between the last separator and that dot is itself a dot
splitext(p) ==
    LET sepIndex == RFind(p, SLASH)
        dotIndex == RFind(p, DOT)
    IN  IF dotIndex > sepIndex
           /\ \E k \in (sepIndex + 1)..(dotIndex - 1) : p[k + 1] # DOT
        THEN SubSeq(p, dotIndex + 1, Len(p))
        ELSE <<>>

\* fnmatch.fnmatchcase(name, pat) for patterns of literals and "*"
RECURSIVE fnmatch(_, _)
fnmatch(name, pat) ==
    IF pat = <<>> THEN name = <<>>
    ELSE IF pat[1] = "*"
         THEN \E k \in 0..Len(name) : fnmatch(SubSeq(name, k + 1, Len(name)), Tail(pat))
         ELSE name # <<>> /\ name[1] = pat[1] /\ fnmatch(Tail(name), Tail(pat))

\* fnmatch.filter(names, pat): the names that match, in order
fnmatch_filter(names, pat) == SelectSeq(names, LAMBDA n : fnmatch(n, pat))

(***************************************************************************)
(* String literals of the model, spelled character by character.          *)
(***************************************************************************)
S_r == <<"r">>
S_dot_r_slash == <<".", "/", "r", "/">>
S_q == <<"q">>
S_dot == <<".">>
S_nm == <<"n", "m">>
S_dot_nm == <<".", "/", "n", "m">>
S_nmx == <<"n", "m", "x">>
S_d == <<"d">>
S_a == <<"a">>
S_py == <<".", "p", "y">>
S_txt == <<".", "t", "x", "t">>
S_noext == <<".", "n", "o", "e", "x", "t">>
S_a_py == <<"a", ".", "p", "y">>
S_b_py == <<"b", ".", "p", "y">>
S_c_txt == <<"c", ".", "t", "x", "t">>
S_x_py == <<"x", ".", "p", "y">>
S_y_txt == <<"y", ".", "t", "x", "t">>
S_z_py == <<"z", ".", "p", "y">>
S_M == <<"M">>
S_dot_g == <<".", "g">>
S_star == <<"*">>

(***************************************************************************)
(* File systems.  A tree is its top directory (relative to the working     *)
(* directory), its subdirectory entries and its file entries; a file's     *)
(* content is the number of lines iteration over it yields.                *)
(***************************************************************************)
\* the tree of the spec's scenarios: a.py (3 lines), b.py (5), c.txt (2)
FS_Scenario ==
    [top |-> S_r,
     subdirs |-> {},
     files |-> {[dir |-> S_r, name |-> S_a_py, lines |-> 3],
                [dir |-> S_r, name |-> S_b_py, lines |-> 5],
                [dir |-> S_r, name |-> S_c_txt, lines |-> 2]}]

\* a tree with an extensionless file, a dot file, a directory nm, a
\* directory below it and a directory nmx whose name has nm as a prefix
FS_Rich ==
    [top |-> S_r,
     subdirs |-> {[dir |-> S_r, name |-> S_nm],
                  [dir |-> S_r, name |-> S_nmx],
                  [dir |-> join(S_r, S_nm), name |-> S_d]},
     files |-> {[dir |-> S_r, name |-> S_M, lines |-> 1],
                [dir |-> S_r, name |-> S_dot_g, lines |-> 4],
                [dir |-> S_r, name |-> S_a_py, lines |-> 3],
                [dir |-> join(S_r, S_nm), name |-> S_x_py, lines |-> 7],
                [dir |-> join(S_r, S_nmx), name |-> S_y_txt, lines |-> 6],
                [dir |-> join(join(S_r, S_nm), S_d), name |-> S_z_py, lines |-> 2]}]

FileSystems == {FS_Scenario, FS_Rich}

\* the path a walk of the tree gives a file
FilePath(f) == join(f.dir, f.name)

\* the directories of a tree
DirsOf(t) == {t.top} \cup {join(e.dir, e.name) : e \in t.subdirs}

\* the orders in which a directory listing can come back
Perms(S) ==
    {s \in [1..Cardinality(S) -> S] : \A i, j \in 1..Cardinality(S) : i # j => s[i] # s[j]}

(***************************************************************************)
(* Command lines.  An option that argparse leaves at None has given =      *)
(* FALSE; with nargs="*" an option given with no values is the empty list. *)
(***************************************************************************)
None == [given |-> FALSE, values |-> <<>>]
Given(list) == [given |-> TRUE, values |-> list]

\* truth value of an optional list: None and [] are both falsy
Truthy(opt) == opt.given /\ opt.values # <<>>

\* `opt or []`
OrEmpty(opt) == IF Truthy(opt) THEN opt.values ELSE <<>>

Directories == {S_r, S_dot_r_slash, S_q}
Includes == {None, Given(<<>>), Given(<<S_dot>>), Given(<<S_nm>>), Given(<<S_a>>)}
IncludeExtensions == {None, Given(<<>>), Given(<<S_py>>)}
Excludes == {None, Given(<<>>), Given(<<S_nm>>), Given(<<S_dot_nm>>), Given(<<S_d>>)}
ExcludeExtensions == {None, Given(<<>>), Given(<<S_txt>>), Given(<<S_noext>>)}

VARIABLES
    pc,            \* position of the program
    fs,            \* the tree on disk
    unreadable,    \* paths whose open() raises OSError
    args,          \* the argparse Namespace
    lc,            \* the LineCounter instance
    walk_stack,    \* directories os.walk has still to list
    root,          \* the directory os.walk yielded last
    items,         \* filtered files of root still to be processed
    line_counts,   \* dict: extension -> lines
    total_lines,
    visited,       \* directories os.walk has yielded
    added,         \* files that reached lines 192-195, with what they added
    stdout,        \* what has been printed
    exit_status,   \* -1 while the process runs
    scan_no,       \* number of the LineCounter in use
    first          \* what the first LineCounter returned

vars == <<pc, fs, unreadable, args, lc, walk_stack, root, items, line_counts,
          total_lines, visited, added, stdout, exit_status, scan_no, first>>

EmptyDict == [e \in {} |-> 0]
NoCounter == [directory |-> <<>>, inclusions |-> <<>>, include_extensions |-> <<>>,
              exclusions |-> <<>>, exclude_extensions |-> <<>>]
NoReport == [line_counts |-> EmptyDict, total_lines |-> -1, exclude_extensions |-> <<>>]

(***************************************************************************)
(* LineCounter.                                                            *)
(***************************************************************************)
\* LineCounter.__init__
LineCounter(directory, inclusions, include_extensions, exclusions, exclude_extensions) ==
    [directory |-> directory,
     inclusions |-> OrEmpty(inclusions),
     include_extensions |-> OrEmpty(include_extensions),
     exclusions |-> OrEmpty(exclusions),
     exclude_extensions |-> OrEmpty(exclude_extensions)]

\* LineCounter._normalize_paths
normalize_paths(self) ==
    [self EXCEPT !.directory = normpath(self.directory),
                 !.inclusions = [k \in 1..Len(self.inclusions) |-> normpath(self.inclusions[k])],
                 !.exclusions = [k \in 1..Len(self.exclusions) |-> normpath(self.exclusions[k])]]

\* the condition of the comprehension of the inclusion branch
IncludePass(self, dir, f) ==
    /\ \E k \in 1..Len(self.inclusions) :
           StartsWith(join(dir, f), join(self.directory, self.inclusions[k]))
    /\ \/ self.include_extensions = <<>>
       \/ InList(splitext(f), self.include_extensions)

\* the condition of the comprehension of the exclusion branch
ExcludePass(self, dir, f) ==
    /\ \A k \in 1..Len(self.exclusions) :
           ~StartsWith(join(dir, f), join(self.directory, self.exclusions[k]))
    /\ \/ self.exclude_extensions = <<>>
       \/ ~InList(splitext(f), self.exclude_extensions)

\* a filter that applies the exclusions in inclusion mode as well
filter_files_both(self, dir, files) ==
    SelectSeq(files, LAMBDA f : /\ (self.inclusions = <<>> \/ IncludePass(self, dir, f))
                                /\ ExcludePass(self, dir, f))

\* LineCounter._filter_files
filter_files(self, dir, files) ==
    IF self.inclusions # <<>>
    THEN SelectSeq(files, LAMBDA f : IncludePass(self, dir, f))
    ELSE SelectSeq(files, LAMBDA f : ExcludePass(self, dir, f))

\* the extension without the ".noext" replacement
BucketExt_raw(item) == splitext(item)

\* the extension a file is reported under
BucketExt(item) ==
    LET ext == splitext(item)
    IN  IF ext = <<>> THEN S_noext ELSE ext

\* a loop without the `continue`
SkippedByExtension_never(self, item) == FALSE

\* the `continue` of the loop of _count_lines
SkippedByExtension(self, item) ==
    self.exclude_extensions # <<>> /\ InList(BucketExt(item), self.exclude_extensions)

\* an except branch that returns -1
count_lines_in_file_minus(tree, broken, file) ==
    IF file \in broken
    THEN [lines |-> -1, error |-> TRUE]
    ELSE [lines |-> (CHOOSE f \in tree.files : FilePath(f) = file).lines, error |-> FALSE]

\* LineCounter._count_lines_in_file: the value returned and whether the
\* except branch printed
count_lines_in_file(tree, broken, file) ==
    IF file \in broken
    THEN [lines |-> 0, error |-> TRUE]
    ELSE [lines |-> (CHOOSE f \in tree.files : FilePath(f) = file).lines, error |-> FALSE]

\* dict.get(key, 0)
DictGet(dict, key) == IF key \in DOMAIN dict THEN dict[key] ELSE 0

\* line_counts[ext] = lines_in_file
DictAdd_overwrite(dict, ext, n) ==
    [e \in DOMAIN dict \cup {ext} |-> IF e = ext THEN n ELSE dict[e]]

\* line_counts[ext] = line_counts.get(ext, 0) + lines_in_file
DictAdd(dict, ext, n) ==
    [e \in DOMAIN dict \cup {ext} |-> IF e = ext THEN DictGet(dict, ext) + n ELSE dict[e]]

\* total_lines += lines_in_file
TotalAdd(total, n) == total + n

\* the (dirs, files) os.walk finds in a directory, as sets of names
ListDirs(tree, dir) == {e.name : e \in {x \in tree.subdirs : x.dir = dir}}
ListFiles(tree, dir) == {f.name : f \in {x \in tree.files : x.dir = dir}}

\* a walk that prunes the directories named in the exclusions
WalkPush_prune(self, dir, dirs) ==
    LET kept == SelectSeq(dirs, LAMBDA d : ~InList(d, self.exclusions))
    IN  [k \in 1..Len(kept) |-> join(dir, kept[k])]

\* the directories os.walk pushes for a listing: all of them, the `_` of
\* the loop is never edited
WalkPush(self, dir, dirs) == [k \in 1..Len(dirs) |-> join(dir, dirs[k])]

(***************************************************************************)
(* parse_arguments.                                                        *)
(***************************************************************************)
\* the condition of parser.error
ArgsConflict(a) ==
    \/ (Truthy(a.include) /\ Truthy(a.exclude))
    \/ (Truthy(a.include_extensions) /\ Truthy(a.exclude_extensions))

(***************************************************************************)
(* Initial states.                                                         *)
(***************************************************************************)
Namespaces ==
    [directory : Directories, include : Includes, include_extensions : IncludeExtensions,
     exclude : Excludes, exclude_extensions : ExcludeExtensions]

InitRest ==
    /\ pc = "start"
    /\ lc = NoCounter
    /\ walk_stack = <<>>
    /\ root = <<>>
    /\ items = <<>>
    /\ line_counts = EmptyDict
    /\ total_lines = 0
    /\ visited = {}
    /\ added = <<>>
    /\ stdout = <<>>
    /\ exit_status = -1
    /\ scan_no = 1
    /\ first = NoReport

Init ==
    /\ fs \in FileSystems
    /\ unreadable \in {u \in SUBSET {FilePath(f) : f \in fs.files} : Cardinality(u) <= MaxUnreadable}
    /\ args \in Namespaces
    /\ InitRest

(***************************************************************************)
(* The program.                                                            *)
(***************************************************************************)
\* parse_arguments, the parser.error exit
ParseArgumentsError ==
    /\ pc = "start"
    /\ ArgsConflict(args)
    /\ pc' = "usage_error"
    /\ exit_status' = 2
    /\ UNCHANGED <<fs, unreadable, args, lc, walk_stack, root, items, line_counts,
                   total_lines, visited, added, stdout, scan_no, first>>

\* parse_arguments returning the Namespace
ParseArgumentsOk ==
    /\ pc = "start"
    /\ ~ArgsConflict(args)
    /\ pc' = "parsed"
    /\ UNCHANGED <<fs, unreadable, args, lc, walk_stack, root, items, line_counts,
                   total_lines, visited, added, stdout, exit_status, scan_no, first>>

\* main: line_counter = LineCounter(...)
Construct ==
    /\ pc = "parsed"
    /\ lc' = LineCounter(args.directory, args.include, args.include_extensions,
                         args.exclude, args.exclude_extensions)
    /\ pc' = "constructed"
    /\ UNCHANGED <<fs, unreadable, args, walk_stack, root, items, line_counts,
                   total_lines, visited, added, stdout, exit_status, scan_no, first>>

\* LineCounter.count up to the first step of os.walk
Count ==
    /\ pc = "constructed"
    /\ lc' = normalize_paths(lc)
    /\ line_counts' = EmptyDict
    /\ total_lines' = 0
    /\ walk_stack' = <<lc'.directory>>
    /\ root' = <<>>
    /\ items' = <<>>
    /\ visited' = {}
    /\ added' = <<>>
    /\ pc' = "walking"
    /\ UNCHANGED <<fs, unreadable, args, stdout, exit_status, scan_no, first>>

\* os.walk takes the next directory: a directory that cannot be listed is
\* passed over in silence (onerror is None); otherwise the directory is
\* yielded, its files are filtered and its subdirectories are pushed
WalkDir ==
    /\ pc = "walking"
    /\ items = <<>>
    /\ walk_stack # <<>>
    /\ LET dir == Head(walk_stack)
       IN  IF dir \notin DirsOf(fs)
           THEN /\ walk_stack' = Tail(walk_stack)
                /\ UNCHANGED <<root, items, visited>>
           ELSE \E dirs \in Perms(ListDirs(fs, dir)), files \in Perms(ListFiles(fs, dir)) :
                    /\ root' = dir
                    /\ visited' = visited \cup {dir}
                    /\ items' = fnmatch_filter(filter_files(lc, dir, files), S_star)
                    /\ walk_stack' = WalkPush(lc, dir, dirs) \o Tail(walk_stack)
    /\ UNCHANGED <<pc, fs, unreadable, args, lc, line_counts, total_lines, added,
                   stdout, exit_status, scan_no, first>>

\* one iteration of the inner loop of _count_lines
ProcessFile ==
    /\ pc = "walking"
    /\ items # <<>>
    /\ items' = Tail(items)
    /\ LET item == Head(items)
           ext == BucketExt(item)
           file == join(root, item)
           res == count_lines_in_file(fs, unreadable, file)
       IN  IF SkippedByExtension(lc, item)
           THEN UNCHANGED <<line_counts, total_lines, added, stdout>>
           ELSE /\ line_counts' = DictAdd(line_counts, ext, res.lines)
                /\ total_lines' = TotalAdd(total_lines, res.lines)
                /\ added' = Append(added, [file |-> file, name |-> item, ext |-> ext,
                                              lines |-> res.lines])
                /\ stdout' = IF res.error
                             THEN Append(stdout, [kind |-> "error", file |-> file])
                             ELSE stdout
    /\ UNCHANGED <<pc, fs, unreadable, args, lc, walk_stack, root, visited,
                   exit_status, scan_no, first>>

\* os.walk is exhausted: _count_lines and count return
Return ==
    /\ pc = "walking"
    /\ items = <<>>
    /\ walk_stack = <<>>
    /\ pc' = "returned"
    /\ UNCHANGED <<fs, unreadable, args, lc, walk_stack, root, items, line_counts,
                   total_lines, visited, added, stdout, exit_status, scan_no, first>>

\* main: the report is printed and the process ends
Report ==
    /\ pc = "returned"
    /\ stdout' = Append(stdout, [kind |-> "report", line_counts |-> line_counts,
                                 total_lines |-> total_lines, directory |-> args.directory])
    /\ exit_status' = 0
    /\ pc' = "done"
    /\ UNCHANGED <<fs, unreadable, args, lc, walk_stack, root, items, line_counts,
                   total_lines, visited, added, scan_no, first>>

Next ==
    \/ ParseArgumentsError
    \/ ParseArgumentsOk
    \/ Construct
    \/ Count
    \/ WalkDir
    \/ ProcessFile
    \/ Return
    \/ Report

Spec == Init /\ [][Next]_vars

(***************************************************************************)
(* A second LineCounter over the same tree: same directory, inclusions and *)
(* include_extensions, other exclusions and exclude_extensions.            *)
(***************************************************************************)
RescanExclusions == {<<>>, <<S_nm>>, <<S_a>>}
RescanExcludeExtensions == {<<>>, <<S_py>>, <<S_noext>>}

Rescan ==
    /\ pc = "returned"
    /\ scan_no = 1
    /\ first' = [line_counts |-> line_counts, total_lines |-> total_lines,
                 exclude_extensions |-> lc.exclude_extensions]
    /\ \E e \in RescanExclusions, x \in RescanExcludeExtensions :
           lc' = LineCounter(args.directory, args.include, args.include_extensions,
                             Given(e), Given(x))
    /\ scan_no' = 2
    /\ pc' = "constructed"
    /\ UNCHANGED <<fs, unreadable, args, walk_stack, root, items, line_counts,
                   total_lines, visited, added, stdout, exit_status>>

NextRescan ==
    \/ ParseArgumentsError
    \/ ParseArgumentsOk
    \/ Construct
    \/ Count
    \/ WalkDir
    \/ ProcessFile
    \/ Return
    \/ Report
    \/ Rescan

SpecRescan == Init /\ [][NextRescan]_vars

(***************************************************************************)
(* The extension of a file name: a directory with one file, whose name is  *)
(* every string over the alphabet up to MaxNameLen that can name a file.   *)
(***************************************************************************)
NameAlphabet == {"a", DOT}

Names ==
    {n \in UNION {[1..k -> NameAlphabet] : k \in 1..MaxNameLen} :
         n # <<DOT>> /\ n # <<DOT, DOT>>}

HasDot(n) == \E i \in 1..Len(n) : n[i] = DOT

\* the substring from the last "." of the name to its end
LastDotSuffix(n) == SubSeq(n, RFind(n, DOT) + 1, Len(n))

FS_OneFile(n) ==
    [top |-> S_r, subdirs |-> {}, files |-> {[dir |-> S_r, name |-> n, lines |-> 2]}]

SuffixChoices(n) == IF HasDot(n) THEN {Given(<<LastDotSuffix(n)>>)} ELSE {}

InitExt ==
    /\ \E n \in Names :
           /\ fs = FS_OneFile(n)
           /\ args \in [directory : {S_r},
                        include : {None, Given(<<SubSeq(n, 1, 1)>>)},
                        include_extensions : {None} \cup SuffixChoices(n),
                        exclude : {None},
                        exclude_extensions : {None, Given(<<S_noext>>)} \cup SuffixChoices(n)]
    /\ unreadable = {}
    /\ InitRest

SpecExt == InitExt /\ [][Next]_vars

(***************************************************************************)
(* Properties.                                                             *)
(***************************************************************************)
RECURSIVE SumValues(_)
SumValues(dict) ==
    IF DOMAIN dict = {} THEN 0
    ELSE LET k == CHOOSE e \in DOMAIN dict : TRUE
         IN  dict[k] + SumValues([e \in DOMAIN dict \ {k} |-> dict[e]])

RECURSIVE SumLines(_)
SumLines(S) ==
    IF S = {} THEN 0
    ELSE LET f == CHOOSE x \in S : TRUE IN f.lines + SumLines(S \ {f})

Reports == {stdout[i] : i \in {k \in 1..Len(stdout) : stdout[k].kind = "report"}}
ErrorFiles == {stdout[i].file : i \in {k \in 1..Len(stdout) : stdout[k].kind = "error"}}
AddedFiles == {added[i].file : i \in 1..Len(added)}
RootExists == normpath(args.directory) \in DirsOf(fs)
ScanOver == pc \in {"returned", "done"}

\* a path is the directory or lies below it
AtOrBelow(path, dir) == path = dir \/ StartsWith(path, dir \o <<SLASH>>)

\* C1: the total equals the sum of the per-extension counts, after every
\* file processed during the walk, in what count() returns and in what is
\* reported
C1_TotalIsSum ==
    /\ total_lines = SumValues(line_counts)
    /\ \A r \in Reports : r.total_lines = SumValues(r.line_counts)

C1_Witness ==
    /\ pc = "returned"
    /\ Cardinality(DOMAIN line_counts) >= 2
    /\ Len(added) >= 3
    /\ total_lines > 0

\* what the filter and the extension check of the loop let through
Selected(self, f) ==
    /\ IF self.inclusions # <<>> THEN IncludePass(self, f.dir, f.name)
                                 ELSE ExcludePass(self, f.dir, f.name)
    /\ ~SkippedByExtension(self, f.name)

\* C2: a file whose read raises OSError adds 0 to its extension and to the
\* total and is reported as an error; the walk goes on, and every other
\* selected file is counted once with its full line count, wherever the
\* failing file comes in the traversal
C2_ReadErrorAddsZero ==
    (ScanOver /\ RootExists) =>
        /\ \A f \in fs.files :
               Selected(lc, f) =>
                   \E i \in 1..Len(added) :
                       /\ added[i].file = FilePath(f)
                       /\ added[i].lines = IF FilePath(f) \in unreadable THEN 0 ELSE f.lines
                       /\ \A j \in 1..Len(added) : added[j].file = FilePath(f) => j = i
        /\ total_lines = SumLines({f \in fs.files : Selected(lc, f) /\ FilePath(f) \notin unreadable})
        /\ ErrorFiles = AddedFiles \cap unreadable

C2_Witness ==
    /\ pc = "returned"
    /\ Len(added) >= 3
    /\ added[2].file \in unreadable
    /\ added[2].lines = 0
    /\ added[1].lines > 0
    /\ added[3].lines > 0

\* C3 as stated: in exclusion mode a file is counted iff its path does not
\* start with an exclusion prefix joined to the root and its extension
\* (empty for an extensionless name) is not in exclude_extensions
C3_Original ==
    (ScanOver /\ RootExists /\ lc.inclusions = <<>>) =>
        \A f \in fs.files :
            FilePath(f) \in AddedFiles <=>
                /\ \A k \in 1..Len(lc.exclusions) :
                       ~StartsWith(join(f.dir, f.name), join(lc.directory, lc.exclusions[k]))
                /\ \/ lc.exclude_extensions = <<>>
                   \/ ~InList(splitext(f.name), lc.exclude_extensions)

\* C3 amended: in exclusion mode a file is counted iff its path does not
\* start with an exclusion prefix joined to the root and neither its
\* extension (empty for an extensionless name) nor the extension it is
\* reported under (".noext" for an extensionless name) is in
\* exclude_extensions
C3_ExclusionMode ==
    (ScanOver /\ RootExists /\ lc.inclusions = <<>>) =>
        \A f \in fs.files :
            FilePath(f) \in AddedFiles <=>
                /\ \A k \in 1..Len(lc.exclusions) :
                       ~StartsWith(join(f.dir, f.name), join(lc.directory, lc.exclusions[k]))
                /\ \/ lc.exclude_extensions = <<>>
                   \/ /\ ~InList(splitext(f.name), lc.exclude_extensions)
                      /\ ~InList(IF splitext(f.name) = <<>> THEN S_noext ELSE splitext(f.name),
                                 lc.exclude_extensions)

C3_Witness ==
    /\ pc = "returned"
    /\ fs = FS_Rich
    /\ lc.inclusions = <<>>
    /\ lc.exclude_extensions = <<S_noext>>
    /\ join(S_r, S_M) \notin AddedFiles
    /\ join(S_r, S_dot_g) \notin AddedFiles
    /\ join(S_r, S_a_py) \in AddedFiles

\* C4: --include . with --include-extensions .py on the tree a.py (3),
\* b.py (5), c.txt (2) reports {".py": 8} and total 8
C4_IncludeDot ==
    ( /\ ScanOver
      /\ fs = FS_Scenario
      /\ unreadable = {}
      /\ RootExists
      /\ args.include = Given(<<S_dot>>)
      /\ args.include_extensions = Given(<<S_py>>) ) =>
        /\ DOMAIN line_counts = {S_py}
        /\ DictGet(line_counts, S_py) = 8
        /\ total_lines = 8

\* C5 as stated: with inclusions, the second scan (other exclusions and
\* exclude_extensions) returns what the first returned
C5_Original ==
    (pc = "returned" /\ scan_no = 2 /\ lc.inclusions # <<>>) =>
        /\ line_counts = first.line_counts
        /\ total_lines = first.total_lines

\* C5 amended: with inclusions, a second scan that differs from the first
\* in its exclusions only (same exclude_extensions) returns what the first
\* returned
C5_ExclusionsIgnored ==
    (pc = "returned" /\ scan_no = 2 /\ lc.inclusions # <<>>
        /\ lc.exclude_extensions = first.exclude_extensions) =>
        /\ line_counts = first.line_counts
        /\ total_lines = first.total_lines

C5_Witness ==
    /\ pc = "returned"
    /\ scan_no = 2
    /\ lc.inclusions = <<S_nm>>
    /\ lc.exclusions = <<S_nm>>
    /\ lc.exclude_extensions = first.exclude_extensions
    /\ total_lines > 0
    /\ total_lines = first.total_lines

\* the subdirectory entries whose name is exactly an exclusion entry
NamedByExclusion == {e \in fs.subdirs : InList(e.name, lc.exclusions)}

\* C6 as stated: a subdirectory named exactly by an exclusion entry is
\* never visited, nor is a directory below it, and no file of the subtree
\* is counted
C6_Original ==
    (lc.inclusions = <<>>) =>
        \A e \in NamedByExclusion :
            /\ \A d \in visited : ~AtOrBelow(d, join(e.dir, e.name))
            /\ \A i \in 1..Len(added) : ~AtOrBelow(added[i].file, join(e.dir, e.name))

\* C6 amended: no directory is pruned, the walk visits every directory of
\* the tree; in exclusion mode no file below a subdirectory of the root
\* whose name equals an exclusion entry, or has an exclusion entry as a
\* prefix, is counted
C6_VisitedNotCounted ==
    /\ (ScanOver /\ RootExists) => visited = DirsOf(fs)
    /\ (lc.inclusions = <<>>) =>
           \A e \in fs.subdirs :
               (e.dir = lc.directory
                   /\ \E k \in 1..Len(lc.exclusions) : StartsWith(e.name, lc.exclusions[k])) =>
                   \A i \in 1..Len(added) : ~AtOrBelow(added[i].file, join(e.dir, e.name))

C6_Witness ==
    /\ pc = "returned"
    /\ fs = FS_Rich
    /\ lc.inclusions = <<>>
    /\ lc.exclusions = <<S_nm>>
    /\ join(S_r, S_nm) \in visited
    /\ join(join(S_r, S_nm), S_d) \in visited
    /\ join(S_r, S_nmx) \in visited
    /\ AddedFiles = {join(S_r, S_M), join(S_r, S_dot_g), join(S_r, S_a_py)}

\* C7: when the root directory does not exist the run ends in the fatal
\* error state: no scan result, no report, a non-zero exit status
C7_MissingRootIsFatal ==
    (~RootExists) =>
        /\ pc \notin {"returned", "done"}
        /\ Reports = {}
        /\ exit_status # 0

\* C8: when an include and an exclude form are both supplied on one axis,
\* with zero or more values each, the parser ends in the usage error and no
\* scan is started
C8_BothFormsRejected ==
    ( \/ (args.include.given /\ args.exclude.given)
      \/ (args.include_extensions.given /\ args.exclude_extensions.given) ) =>
        pc \in {"start", "usage_error"}

\* C9: the empty string is never a key of the per-extension map, and every
\* counted file whose name has no extension is added under ".noext"
C9_NoEmptyKey ==
    /\ <<>> \notin DOMAIN line_counts
    /\ \A r \in Reports : <<>> \notin DOMAIN r.line_counts
    /\ \A i \in 1..Len(added) :
           /\ added[i].ext \in DOMAIN line_counts
           /\ (~HasDot(added[i].name)) => added[i].ext = S_noext

C9_Witness ==
    /\ pc = "returned"
    /\ \E i \in 1..Len(added) : added[i].name = S_M /\ added[i].ext = S_noext
    /\ DictGet(line_counts, S_noext) > 0

\* the one file of the tree of the extension specification
TheFile == CHOOSE f \in fs.files : TRUE
TheFileCounted == FilePath(TheFile) \in AddedFiles

\* C10 as stated: a name with a "." is filtered and reported by the
\* substring from its last "."; only a name without "." is ".noext"
C10_Original ==
    (pc = "returned") =>
        LET n == TheFile.name
            e == IF HasDot(n) THEN LastDotSuffix(n) ELSE <<>>
            b == IF HasDot(n) THEN LastDotSuffix(n) ELSE S_noext
        IN  /\ TheFileCounted => added[1].ext = b
            /\ (lc.inclusions # <<>> /\ lc.include_extensions # <<>> /\ lc.exclude_extensions = <<>>) =>
                   (TheFileCounted <=> InList(e, lc.include_extensions))
            /\ (lc.inclusions = <<>> /\ lc.exclude_extensions # <<>> /\ ~InList(S_noext, lc.exclude_extensions)) =>
                   (TheFileCounted <=> ~InList(e, lc.exclude_extensions))

\* some character before the last "." of the name is not a "."
DotAfterStem(n) == \E i \in 1..Len(n) : n[i] # DOT /\ \E j \in (i+1)..Len(n) : n[j] = DOT

\* C10 amended: a name in which some character other than "." comes before
\* the last "." is filtered and reported by the substring from its last
\* "."; every other name (no ".", or leading dots only, such as
\* ".gitignore") is filtered by the empty extension and reported under
\* ".noext"
C10_Extension ==
    (pc = "returned") =>
        LET n == TheFile.name
            e == IF DotAfterStem(n) THEN LastDotSuffix(n) ELSE <<>>
            b == IF DotAfterStem(n) THEN LastDotSuffix(n) ELSE S_noext
        IN  /\ TheFileCounted => added[1].ext = b
            /\ (lc.inclusions # <<>> /\ lc.include_extensions # <<>> /\ lc.exclude_extensions = <<>>) =>
                   (TheFileCounted <=> InList(e, lc.include_extensions))
            /\ (lc.inclusions = <<>> /\ lc.exclude_extensions # <<>> /\ ~InList(S_noext, lc.exclude_extensions)) =>
                   (TheFileCounted <=> ~InList(e, lc.exclude_extensions))

C10_Witness ==
    /\ pc = "returned"
    /\ TheFile.name = <<DOT, "a">>
    /\ lc.exclude_extensions = <<<<DOT, "a">>>>
    /\ TheFileCounted
    /\ DOMAIN line_counts = {S_noext}

====
